---- MODULE Spec2Model ----
(***************************************************************************)
(* A model of FolderWatcher (package dbxapi): the entry store kept in two  *)
(* maps, the reconciliation of a listing batch against it (fetchInitial    *)
(* and fetch), the run loop with its long-poll phase, and the two channels *)
(* (cancelch, capacity 1, and the unbuffered exitch).                       *)
(*                                                                         *)
(* The worker goroutine's position is pc.  A transport round trip is two   *)
(* steps (the request is sent, the response returns), so that Cancel can   *)
(* interleave with a request in flight; everything the worker does between *)
(* two suspension points is one step.                                      *)
(*                                                                         *)
(* A *FolderEntry is modelled by its value [Tag, Id, PathLower].  The code *)
(* always stores one pointer under both keys at once (lines 123-124 and    *)
(* 184-185), so two stored pointers with the same Id and PathLower are the *)
(* same pointer, and pointer equality is value equality here.              *)
(***************************************************************************)
EXTENDS Integers, Sequences, FiniteSets, TLC

\* ---------------------------------------------------------------- bounds
\* Longest listing batch (rows of one response).
MaxBatch == 2
\* Number of Cancel calls made by the caller's goroutines.
MaxCancels == 2
\* Largest backoff (seconds) a long-poll response asks for.
MaxBackoff == 1
\* Requests and callbacks counted after a cancellation signal: the counts stop
\* here.
MaxCount == 2

\* ------------------------------------------------------------ value sets
Ids == {"id1", "id2"}
Paths == {"/x", "/y"}
Cursors == {"c1", "c2"}
\* Transport errors.
Errs == {"e1", "e2"}
ErrCanceled == "canceled"
\* The empty string: an empty Cursor, an absent id, an absent error.
Empty == ""

\* A nil *FolderEntry.
NilEntry == [Tag |-> "nil", Id |-> Empty, PathLower |-> Empty]
\* Content rows of a listing: a file with its id at its lower-cased path.
ContentRows == [Tag : {"file"}, Id : Ids, PathLower : Paths]
\* Tombstone rows: tag "deleted", a path and no id.
TombRows == [Tag : {"deleted"}, Id : {Empty}, PathLower : Paths]
Rows == ContentRows \cup TombRows

SeqsUpTo(S, n) == UNION {[1..k -> S] : k \in 0..n}

\* r.Entries of a list_folder/continue response: any rows in any order.
Batches == SeqsUpTo(Rows, MaxBatch)
\* r.Entries of a list_folder response: a snapshot of the folder.  The request
\* leaves IncludeDeleted false, and a snapshot names each id and each path once.
InitialBatches ==
  {b \in SeqsUpTo(ContentRows, MaxBatch) :
     \A i, j \in 1..Len(b) :
        i # j => b[i].Id # b[j].Id /\ b[i].PathLower # b[j].PathLower}

\* ------------------------------------------------------------- Go maps
\* m[k] of a Go map: the zero value when the key is absent.
Lookup(m, k, zero) == IF k \in DOMAIN m THEN m[k] ELSE zero
MapPut(m, k, v) == [x \in (DOMAIN m) \cup {k} |-> IF x = k THEN v ELSE m[x]]
MapDel(m, k) == [x \in (DOMAIN m) \ {k} |-> m[x]]
EmptyMap == [x \in {} |-> NilEntry]

\* FolderChanges
NoChanges == [Added |-> <<>>, Updated |-> <<>>, Removed |-> <<>>]

\* DirMode
DirModeShallow == 0
DirModeRecursive == 1
\* The path a watcher is made for.
WatchPath == "/watched"
\* The Timeout of every long-poll request.
LongpollTimeout == 30

\* A request: ListFolderReq (initial), ListFolderContReq (continue) or
\* ListFolderLongpollReq (longpoll), with the fields the watcher sets.
NoReq == [kind |-> "none", Cursor |-> Empty, Path |-> Empty, Recursive |-> FALSE,
          Timeout |-> 0]
NoRsp == [kind |-> "none", err |-> Empty, Cursor |-> Empty, HasMore |-> FALSE,
          Entries |-> 0, Changes |-> FALSE, Backoff |-> 0]

VARIABLES
  EntriesById,    \* map: file id -> entry
  EntriesByPath,  \* map: lower-case path -> entry
  Cursor,         \* "" until a listing response was stored
  hasMore,
  canceled,
  cancelch,       \* number of values buffered in cancelch (capacity 1)
  exitch,         \* the value the worker is blocked sending on exitch, or ""
  Exit,           \* the values a reader has received from Exit, in order
  pc,             \* where the worker goroutine is
  req,            \* the transport request in flight
  rsp,            \* the response the worker is handling (r, err), less its rows
  changes,        \* the FolderChanges passed to changecb, while it runs
  sleepLeft,      \* seconds left of time.Sleep
  cancelCalls,    \* Cancel calls made so far
  cancelers,      \* goroutines inside Cancel, at the channel send
  lastCursor,     \* history: the cursor of the last listing response stored
  DirMode,        \* the mode the watcher was made with
  waited,         \* history: seconds slept since the last request was sent
  after           \* history: what the worker began after a cancellation signal

vars == <<EntriesById, EntriesByPath, Cursor, hasMore, canceled, cancelch,
          exitch, Exit, pc, req, rsp, changes, sleepLeft, cancelCalls,
          cancelers, lastCursor, DirMode, waited, after>>

store == <<EntriesById, EntriesByPath, Cursor, hasMore>>
callers == <<cancelCalls, cancelers>>

\* Mutant of checkCanceled: only the sticky flag is read, the channel never.
checkCanceled_FlagOnly ==
  [hit |-> canceled, canceled |-> canceled, cancelch |-> cancelch]

\* ------------------------------------------------- cancellation, results
\* checkCanceled: the sticky flag, else a non-blocking receive from cancelch.
checkCanceled ==
  IF canceled
    THEN [hit |-> TRUE, canceled |-> TRUE, cancelch |-> cancelch]
    ELSE IF cancelch > 0
      THEN [hit |-> TRUE, canceled |-> TRUE, cancelch |-> cancelch - 1]
      ELSE [hit |-> FALSE, canceled |-> FALSE, cancelch |-> cancelch]

\* checkCanceledAndExit: exit is the value to send on exitch ("" for none).
checkCanceledAndExit ==
  LET cc == checkCanceled
  IN  [hit |-> cc.hit, exit |-> IF cc.hit THEN ErrCanceled ELSE Empty,
       canceled |-> cc.canceled, cancelch |-> cc.cancelch]

\* Mutant of checkResult: cancellation is looked at before the error.
checkResult_CancelFirst(r) ==
  LET ce == checkCanceledAndExit
  IN  IF ce.hit
        THEN [ok |-> FALSE, exit |-> ce.exit, Cursor |-> Cursor, hasMore |-> hasMore,
              canceled |-> ce.canceled, cancelch |-> ce.cancelch]
        ELSE IF r.err # Empty
          THEN [ok |-> FALSE, exit |-> r.err, Cursor |-> Cursor, hasMore |-> hasMore,
                canceled |-> ce.canceled, cancelch |-> ce.cancelch]
          ELSE [ok |-> TRUE, exit |-> Empty, Cursor |-> r.Cursor, hasMore |-> r.HasMore,
                canceled |-> ce.canceled, cancelch |-> ce.cancelch]

\* Mutant of checkResult: the cursor and has_more of a page without rows are
\* not stored.
checkResult_SkipEmpty(r) ==
  IF r.err # Empty
    THEN [ok |-> FALSE, exit |-> r.err, Cursor |-> Cursor, hasMore |-> hasMore,
          canceled |-> canceled, cancelch |-> cancelch]
    ELSE LET ce == checkCanceledAndExit
         IN  IF ce.hit
               THEN [ok |-> FALSE, exit |-> ce.exit, Cursor |-> Cursor,
                     hasMore |-> hasMore,
                     canceled |-> ce.canceled, cancelch |-> ce.cancelch]
               ELSE [ok |-> TRUE, exit |-> Empty,
                     Cursor |-> IF Len(r.Entries) = 0 THEN Cursor ELSE r.Cursor,
                     hasMore |-> IF Len(r.Entries) = 0 THEN hasMore ELSE r.HasMore,
                     canceled |-> ce.canceled, cancelch |-> ce.cancelch]

\* Mutant of checkResult: the cursor and has_more are stored before the
\* cancellation is looked at.
checkResult_StoreFirst(r) ==
  IF r.err # Empty
    THEN [ok |-> FALSE, exit |-> r.err, Cursor |-> Cursor, hasMore |-> hasMore,
          canceled |-> canceled, cancelch |-> cancelch]
    ELSE LET ce == checkCanceledAndExit
         IN  [ok |-> ~ce.hit, exit |-> ce.exit, Cursor |-> r.Cursor,
              hasMore |-> r.HasMore,
              canceled |-> ce.canceled, cancelch |-> ce.cancelch]

\* Mutant of checkResult: a listing response is never checked for cancellation.
checkResult_NoCancel(r) ==
  IF r.err # Empty
    THEN [ok |-> FALSE, exit |-> r.err, Cursor |-> Cursor, hasMore |-> hasMore,
          canceled |-> canceled, cancelch |-> cancelch]
    ELSE [ok |-> TRUE, exit |-> Empty, Cursor |-> r.Cursor, hasMore |-> r.HasMore,
          canceled |-> canceled, cancelch |-> cancelch]

\* checkResult(r, err): the error first, then cancellation, then the cursor
\* and has_more of the response are stored.
checkResult(r) ==
  IF r.err # Empty
    THEN [ok |-> FALSE, exit |-> r.err, Cursor |-> Cursor, hasMore |-> hasMore,
          canceled |-> canceled, cancelch |-> cancelch]
    ELSE LET ce == checkCanceledAndExit
         IN  IF ce.hit
               THEN [ok |-> FALSE, exit |-> ce.exit, Cursor |-> Cursor,
                     hasMore |-> hasMore,
                     canceled |-> ce.canceled, cancelch |-> ce.cancelch]
               ELSE [ok |-> TRUE, exit |-> Empty, Cursor |-> r.Cursor,
                     hasMore |-> r.HasMore,
                     canceled |-> ce.canceled, cancelch |-> ce.cancelch]

\* ------------------------------------------------------- reconciliation
\* The body of fetchInitial's loop, rows i..Len(rows): every row is stored
\* under its id and its path and its id is reported Added.
RECURSIVE InitialLoop(_, _, _)
InitialLoop(st, rows, i) ==
  IF i > Len(rows) THEN st
  ELSE LET ent == rows[i]
       IN  InitialLoop([byId    |-> MapPut(st.byId, ent.Id, ent),
                        byPath  |-> MapPut(st.byPath, ent.PathLower, ent),
                        Added   |-> Append(st.Added, ent.Id)],
                       rows, i + 1)

\* Mutant of FetchRow: a row at an unoccupied path is reported Updated.
FetchRow_AddedAsUpdated(st, ent) ==
  LET prevEntAtPath == Lookup(st.byPath, ent.PathLower, NilEntry)
      stored == [st EXCEPT !.byId = MapPut(st.byId, ent.Id, ent),
                           !.byPath = MapPut(st.byPath, ent.PathLower, ent)]
  IN  IF ent.Tag = "deleted"
        THEN IF prevEntAtPath # NilEntry
               THEN [st EXCEPT !.delm = MapPut(st.delm, prevEntAtPath.Id, ent.PathLower)]
               ELSE st
        ELSE IF prevEntAtPath # NilEntry
          THEN IF prevEntAtPath.Id # ent.Id
                 THEN IF Lookup(st.byId, prevEntAtPath.Id, NilEntry) # NilEntry
                        THEN [stored EXCEPT
                                !.delm = MapPut(st.delm, prevEntAtPath.Id, Empty),
                                !.Updated = Append(st.Updated, ent.Id)]
                        ELSE [stored EXCEPT !.Added = Append(st.Added, ent.Id)]
                 ELSE [stored EXCEPT
                         !.delm = MapDel(st.delm, ent.Id),
                         !.Updated = Append(st.Updated, ent.Id)]
          ELSE [stored EXCEPT !.Updated = Append(st.Updated, ent.Id)]

\* One iteration of fetch's loop over r.Entries (lines 153-187).
\* st = [byId, byPath, delm, Added, Updated].
FetchRow(st, ent) ==
  LET prevEntAtPath == Lookup(st.byPath, ent.PathLower, NilEntry)
      stored == [st EXCEPT !.byId = MapPut(st.byId, ent.Id, ent),
                           !.byPath = MapPut(st.byPath, ent.PathLower, ent)]
  IN  IF ent.Tag = "deleted"
        THEN IF prevEntAtPath # NilEntry
               THEN [st EXCEPT !.delm = MapPut(st.delm, prevEntAtPath.Id, ent.PathLower)]
               ELSE st
        ELSE IF prevEntAtPath # NilEntry
          THEN IF prevEntAtPath.Id # ent.Id
                 THEN IF Lookup(st.byId, prevEntAtPath.Id, NilEntry) # NilEntry
                        THEN [stored EXCEPT
                                !.delm = MapPut(st.delm, prevEntAtPath.Id, Empty),
                                !.Updated = Append(st.Updated, ent.Id)]
                        ELSE [stored EXCEPT !.Added = Append(st.Added, ent.Id)]
                 ELSE [stored EXCEPT
                         !.delm = MapDel(st.delm, ent.Id),
                         !.Updated = Append(st.Updated, ent.Id)]
          \* line 179 tests prevEntAtPath != nil inside the branch where it is
          \* nil: the delete of line 180 never runs.
          ELSE [stored EXCEPT !.Added = Append(st.Added, ent.Id)]

RECURSIVE FetchLoop(_, _, _)
FetchLoop(st, rows, i) ==
  IF i > Len(rows) THEN st ELSE FetchLoop(FetchRow(st, rows[i]), rows, i + 1)

\* Mutant of RemoveLoop: the identity is deleted, its path slot is kept.
RECURSIVE RemoveLoop_KeepPath(_, _, _)
RemoveLoop_KeepPath(st, order, i) ==
  IF i > Len(order) THEN st
  ELSE RemoveLoop_KeepPath([st EXCEPT !.byId = MapDel(st.byId, order[i])],
                           order, i + 1)

\* The loop over delm (lines 189-198), in the order the map iteration takes:
\* order is a sequence of the keys of delm.
RECURSIVE RemoveLoop(_, _, _)
RemoveLoop(st, order, i) ==
  IF i > Len(order) THEN st
  ELSE LET id == order[i]
           removedPath == st.delm[id]
       IN  RemoveLoop([st EXCEPT
                         !.byId = MapDel(st.byId, id),
                         !.byPath = IF removedPath # Empty
                                      THEN MapDel(st.byPath, removedPath)
                                      ELSE st.byPath],
                      order, i + 1)

\* The orders in which a Go map iteration can visit the keys S.
Orders(S) ==
  {o \in [1..Cardinality(S) -> S] : \A i, j \in 1..Cardinality(S) : o[i] = o[j] => i = j}

\* fetch after a stored response with rows: the stores and the FolderChanges
\* it ends with, for the iteration order chosen.
Reconcile(byId, byPath, rows, order) ==
  LET looped == FetchLoop([byId |-> byId, byPath |-> byPath, delm |-> EmptyMap,
                           Added |-> <<>>, Updated |-> <<>>], rows, 1)
      done == RemoveLoop(looped, order, 1)
  IN  [byId |-> done.byId, byPath |-> done.byPath,
       changes |-> [Added |-> looped.Added, Updated |-> looped.Updated,
                    Removed |-> order]]

\* The keys of delm after fetch's loop over the rows.
Deleted(byId, byPath, rows) ==
  DOMAIN FetchLoop([byId |-> byId, byPath |-> byPath, delm |-> EmptyMap,
                    Added |-> <<>>, Updated |-> <<>>], rows, 1).delm

\* ------------------------------------------------------------ transport
\* What ListFolderReq.Send / ListFolderContReq.Send can return: an error, or a
\* result with rows, a cursor (never empty) and has_more.
ListResults(batches) ==
  [err : Errs, Entries : {<<>>}, Cursor : {Empty}, HasMore : {FALSE}]
  \cup [err : {Empty}, Entries : batches, Cursor : Cursors, HasMore : BOOLEAN]

\* What ListFolderLongpollReq.Send can return.
LongpollResults ==
  [err : Errs, Changes : {FALSE}, Backoff : {0}]
  \cup [err : {Empty}, Changes : BOOLEAN, Backoff : 0..MaxBackoff]

ListRsp(r) ==
  [NoRsp EXCEPT !.kind = "list", !.err = r.err, !.Cursor = r.Cursor,
                !.HasMore = r.HasMore, !.Entries = Len(r.Entries)]

LongpollRsp(r) ==
  [NoRsp EXCEPT !.kind = "longpoll", !.err = r.err, !.Changes = r.Changes,
                !.Backoff = r.Backoff]

\* ------------------------------------------------------------- the loop
\* Mutant of AfterFetch: waitForChanges is entered without draining the pages.
AfterFetch_NoDrain(more) == "longpoll"

\* Run's inner loop after fetch returned true: fetch again while hasMore,
\* else waitForChanges.
AfterFetch(more) == IF more THEN "fetch" ELSE "longpoll"

\* Mutant of AfterExit: Run ignores the false result and goes round its loop.
AfterExit_KeepsRunning == "fetch"

\* Where the worker is once its send on exitch was received: the false result
\* goes up to Run, which returns.
AfterExit == "returned"

\* exitch <- v: the worker blocks until a reader receives.
SendExit(v) ==
  /\ pc' = "exit_send"
  /\ exitch' = v

\* Run(changecb): the worker enters the loop.
Run ==
  /\ pc = "idle"
  /\ pc' = "fetch"
  /\ UNCHANGED <<store, canceled, cancelch, exitch, Exit, req, rsp, changes,
                 sleepLeft, callers, lastCursor>>

\* fetch: the request is chosen by the cursor: the initial listing of the path
\* when the cursor is empty, else the continuation from the cursor.
\* Mutant of listRequest: the initial listing is chosen while the watcher holds
\* no entry.
listRequest_ByStore ==
  IF EntriesById = EmptyMap
    THEN [NoReq EXCEPT !.kind = "initial", !.Path = WatchPath,
                       !.Recursive = (DirMode = DirModeRecursive)]
    ELSE [NoReq EXCEPT !.kind = "continue", !.Cursor = Cursor]

listRequest ==
  IF Cursor = Empty
    THEN [NoReq EXCEPT !.kind = "initial", !.Path = WatchPath,
                       !.Recursive = (DirMode = DirModeRecursive)]
    ELSE [NoReq EXCEPT !.kind = "continue", !.Cursor = Cursor]

SendList ==
  /\ pc = "fetch"
  /\ req' = listRequest
  /\ rsp' = NoRsp
  /\ pc' = "listwait"
  /\ UNCHANGED <<store, canceled, cancelch, exitch, Exit, changes, sleepLeft,
                 callers, lastCursor>>

\* The part fetchInitial and fetch share: checkResult on the response, and
\* what follows when it says false.
Checked(r, cr) ==
  /\ req' = NoReq
  /\ rsp' = ListRsp(r)
  /\ canceled' = cr.canceled
  /\ cancelch' = cr.cancelch
  /\ Cursor' = cr.Cursor
  /\ hasMore' = cr.hasMore
  /\ lastCursor' = IF cr.ok THEN r.Cursor ELSE lastCursor
  /\ UNCHANGED <<Exit, sleepLeft, callers>>

\* Mutant of Deliver: the callback is called whatever the buckets hold.
Deliver_Always(ch, more) ==
  pc' = "callback" /\ changes' = ch

\* The end of fetch: changecb(changes) is called when a bucket has an id, else
\* fetch returns true without calling it.
Deliver(ch, more) ==
  IF Len(ch.Added) > 0 \/ Len(ch.Updated) > 0 \/ Len(ch.Removed) > 0
    THEN pc' = "callback" /\ changes' = ch
    ELSE pc' = AfterFetch(more) /\ changes' = NoChanges

\* fetchInitial from the response on.
FetchInitialResponse(r) ==
  LET cr == checkResult(r)
      done == InitialLoop([byId |-> EntriesById, byPath |-> EntriesByPath,
                           Added |-> <<>>], r.Entries, 1)
  IN  /\ pc = "listwait"
      /\ req.kind = "initial"
      /\ Checked(r, cr)
      /\ IF ~cr.ok
           THEN /\ SendExit(cr.exit)
                /\ UNCHANGED <<EntriesById, EntriesByPath, changes>>
           ELSE IF Len(r.Entries) > 0
             THEN /\ EntriesById' = done.byId
                  /\ EntriesByPath' = done.byPath
                  /\ exitch' = exitch
                  /\ pc' = "callback"
                  /\ changes' = [NoChanges EXCEPT !.Added = done.Added]
             ELSE /\ pc' = AfterFetch(cr.hasMore)
                  /\ UNCHANGED <<EntriesById, EntriesByPath, exitch, changes>>

FetchInitialReturn == \E r \in ListResults(InitialBatches) : FetchInitialResponse(r)

\* fetch from the response on.
FetchResponse(r) ==
  LET cr == checkResult(r)
  IN  /\ pc = "listwait"
      /\ req.kind = "continue"
      /\ Checked(r, cr)
      /\ IF ~cr.ok
           THEN /\ SendExit(cr.exit)
                /\ UNCHANGED <<EntriesById, EntriesByPath, changes>>
           ELSE IF Len(r.Entries) = 0
             THEN /\ pc' = AfterFetch(cr.hasMore)
                  /\ UNCHANGED <<EntriesById, EntriesByPath, exitch, changes>>
             ELSE \E order \in Orders(Deleted(EntriesById, EntriesByPath, r.Entries)) :
                    LET done == Reconcile(EntriesById, EntriesByPath, r.Entries, order)
                    IN  /\ EntriesById' = done.byId
                        /\ EntriesByPath' = done.byPath
                        /\ exitch' = exitch
                        /\ Deliver(done.changes, cr.hasMore)

FetchReturn == \E r \in ListResults(Batches) : FetchResponse(r)

\* changecb returns, and with it fetch.
CallbackReturn ==
  /\ pc = "callback"
  /\ pc' = AfterFetch(hasMore)
  /\ changes' = NoChanges
  /\ UNCHANGED <<store, canceled, cancelch, exitch, Exit, req, rsp, sleepLeft,
                 callers, lastCursor>>

\* waitForChanges: the long-poll request is sent.
SendLongpoll ==
  /\ pc = "longpoll"
  /\ req' = [NoReq EXCEPT !.kind = "longpoll", !.Cursor = Cursor,
                          !.Timeout = LongpollTimeout]
  /\ rsp' = NoRsp
  /\ pc' = "lpwait"
  /\ UNCHANGED <<store, canceled, cancelch, exitch, Exit, changes, sleepLeft,
                 callers, lastCursor>>

\* waitForChanges after the backoff: changes end it with hasMore set, no
\* changes start the next long-poll.
AfterBackoff(chg) ==
  /\ hasMore' = (IF chg THEN TRUE ELSE hasMore)
  /\ pc' = IF chg THEN "fetch" ELSE "longpoll"

\* Mutant of backoffSleep: the backoff is slept only when nothing changed.
backoffSleep_NoChangesOnly(r) == IF r.Changes THEN 0 ELSE r.Backoff

\* The seconds waitForChanges sleeps after a response (0: no sleep).
backoffSleep(r) == r.Backoff

\* waitForChanges from the response on, up to the sleep.
LongpollReturn ==
  /\ pc = "lpwait"
  /\ \E r \in LongpollResults :
       LET ce == checkCanceledAndExit
       IN  /\ req' = NoReq
           /\ rsp' = LongpollRsp(r)
           /\ UNCHANGED <<EntriesById, EntriesByPath, Cursor, Exit, changes,
                          callers, lastCursor>>
           /\ IF r.err # Empty
                THEN /\ SendExit(r.err)
                     /\ UNCHANGED <<hasMore, canceled, cancelch, sleepLeft>>
                ELSE /\ canceled' = ce.canceled
                     /\ cancelch' = ce.cancelch
                     /\ IF ce.hit
                          THEN /\ SendExit(ce.exit)
                               /\ UNCHANGED <<hasMore, sleepLeft>>
                          ELSE /\ exitch' = exitch
                               /\ IF backoffSleep(r) > 0
                                    THEN /\ pc' = "sleep"
                                         /\ sleepLeft' = backoffSleep(r)
                                         /\ hasMore' = hasMore
                                    ELSE /\ AfterBackoff(r.Changes)
                                         /\ sleepLeft' = sleepLeft

\* A second of time.Sleep passes.
Tick ==
  /\ pc = "sleep"
  /\ sleepLeft > 0
  /\ sleepLeft' = sleepLeft - 1
  /\ UNCHANGED <<store, canceled, cancelch, exitch, Exit, pc, req, rsp, changes,
                 callers, lastCursor>>

\* time.Sleep returns.
Wake ==
  /\ pc = "sleep"
  /\ sleepLeft = 0
  /\ AfterBackoff(rsp.Changes)
  /\ UNCHANGED <<EntriesById, EntriesByPath, Cursor, canceled, cancelch, exitch,
                 Exit, req, rsp, changes, sleepLeft, callers, lastCursor>>

\* A reader receives from Exit: the worker's send completes.
ExitRecv ==
  /\ pc = "exit_send"
  /\ Exit' = Append(Exit, exitch)
  /\ exitch' = Empty
  /\ pc' = AfterExit
  /\ UNCHANGED <<store, canceled, cancelch, req, rsp, changes, sleepLeft,
                 callers, lastCursor>>

\* ---------------------------------------------------------------- Cancel
\* A goroutine calls Cancel and reaches the send on cancelch.
CancelCall ==
  /\ cancelCalls < MaxCancels
  /\ cancelCalls' = cancelCalls + 1
  /\ cancelers' = cancelers + 1
  /\ UNCHANGED <<store, canceled, cancelch, exitch, Exit, pc, req, rsp, changes,
                 sleepLeft, lastCursor>>

\* w.cancelch <- struct{}{}: the send completes when the buffer has room, and
\* Cancel returns.
CancelSend ==
  /\ cancelers > 0
  /\ cancelch < 1
  /\ cancelch' = cancelch + 1
  /\ cancelers' = cancelers - 1
  /\ UNCHANGED <<store, canceled, exitch, Exit, pc, req, rsp, changes,
                 sleepLeft, cancelCalls, lastCursor>>

\* History of a cancellation signal: whether a Cancel call completed its send
\* while Run was executing, and since then the requests the worker started and
\* the callbacks it began (counted up to MaxCount).  The worker's check of a
\* response and its call of changecb are one step here, and a signal can land
\* between the two: a callback running when the signal lands counts as begun
\* after it.
NotSignalled == [signalled |-> FALSE, reqs |-> 0, cbs |-> 0]

Bump(n, yes) == IF yes /\ n < MaxCount THEN n + 1 ELSE n

Counted ==
  IF ~after.signalled
    THEN IF cancelch' > cancelch /\ pc \notin {"idle", "returned"}
           THEN [signalled |-> TRUE, reqs |-> 0,
                 cbs |-> IF pc = "callback" THEN 1 ELSE 0]
           ELSE after
    ELSE [after EXCEPT
            !.reqs = Bump(after.reqs, req = NoReq /\ req' # NoReq),
            !.cbs = Bump(after.cbs, pc # "callback" /\ pc' = "callback")]

\* NewFolderWatcher
Init ==
  /\ EntriesById = EmptyMap
  /\ EntriesByPath = EmptyMap
  /\ Cursor = Empty
  /\ hasMore = FALSE
  /\ canceled = FALSE
  /\ cancelch = 0
  /\ exitch = Empty
  /\ Exit = <<>>
  /\ pc = "idle"
  /\ req = NoReq
  /\ rsp = NoRsp
  /\ changes = NoChanges
  /\ sleepLeft = 0
  /\ cancelCalls = 0
  /\ cancelers = 0
  /\ lastCursor = Empty
  /\ DirMode \in {DirModeShallow, DirModeRecursive}
  /\ waited = 0
  /\ after = NotSignalled

\* What every step does besides the action it takes: DirMode is never
\* assigned, and the history variables follow the step.
Kept ==
  /\ DirMode' = DirMode
  /\ waited' = IF req' # NoReq THEN 0
               ELSE IF sleepLeft' < sleepLeft THEN waited + 1
               ELSE waited
  /\ after' = Counted

Next ==
  \/ Run /\ Kept
  \/ SendList /\ Kept
  \/ FetchInitialReturn /\ Kept
  \/ FetchReturn /\ Kept
  \/ CallbackReturn /\ Kept
  \/ SendLongpoll /\ Kept
  \/ LongpollReturn /\ Kept
  \/ Tick /\ Kept
  \/ Wake /\ Kept
  \/ ExitRecv /\ Kept
  \/ CancelCall /\ Kept
  \/ CancelSend /\ Kept

Spec == Init /\ [][Next]_vars

\* The worker goroutine's next step: a request is sent and returns, a sleep
\* and a callback finish.
WorkerStep ==
  \/ SendList /\ Kept
  \/ FetchInitialReturn /\ Kept
  \/ FetchReturn /\ Kept
  \/ CallbackReturn /\ Kept
  \/ SendLongpoll /\ Kept
  \/ LongpollReturn /\ Kept
  \/ Tick /\ Kept
  \/ Wake /\ Kept

\* The program under a fair scheduler: the worker keeps running, a reader
\* receives from Exit, and a Cancel call whose send can complete completes it.
LiveSpec ==
  /\ Spec
  /\ WF_vars(WorkerStep)
  /\ WF_vars(ExitRecv /\ Kept)
  /\ WF_vars(CancelSend /\ Kept)

\* ================================================================ claims
Range(q) == {q[i] : i \in 1..Len(q)}
Content(id, path) == [Tag |-> "file", Id |-> id, PathLower |-> path]
Tombstone(path) == [Tag |-> "deleted", Id |-> Empty, PathLower |-> path]
\* A successful incremental listing response with these rows.
OkList(rows, c, h) == [err |-> Empty, Entries |-> rows, Cursor |-> c, HasMore |-> h]
\* A step in which fetch reconciles exactly these rows (the response was not
\* discarded for a cancellation).
Reconciles(rows) ==
  /\ ~checkCanceled.hit
  /\ \E c \in Cursors, h \in BOOLEAN : FetchResponse(OkList(rows, c, h))
\* The terminal value was sent on exitch (received or not yet).
ExitSent == exitch # Empty \/ Len(Exit) > 0

\* C1: after any sequence of listing responses the two maps hold the same
\* entries: each entry of EntriesById is the entry at its path in EntriesByPath,
\* and each entry of EntriesByPath is the entry under its id in EntriesById.
C1_MapsConsistent ==
  /\ \A i \in DOMAIN EntriesById :
       Lookup(EntriesByPath, EntriesById[i].PathLower, NilEntry) = EntriesById[i]
  /\ \A p \in DOMAIN EntriesByPath :
       Lookup(EntriesById, EntriesByPath[p].Id, NilEntry) = EntriesByPath[p]

\* C2: in every FolderChanges passed to the callback, Added, Updated and Removed
\* are pairwise disjoint.
C2_BucketsDisjoint ==
  pc = "callback" =>
    /\ Range(changes.Added) \cap Range(changes.Updated) = {}
    /\ Range(changes.Added) \cap Range(changes.Removed) = {}
    /\ Range(changes.Updated) \cap Range(changes.Removed) = {}

\* C3: with the store {id1 at /x}, the batch [tombstone /x, content id1 at /y]
\* yields Updated = [id1], nothing Added or Removed, and the store {id1 at /y}.
C3_Coalescing ==
  [][ ( /\ EntriesById = ("id1" :> Content("id1", "/x"))
        /\ EntriesByPath = ("/x" :> Content("id1", "/x"))
        /\ Reconciles(<<Tombstone("/x"), Content("id1", "/y")>>) )
      => ( /\ changes' = [Added |-> <<>>, Updated |-> <<"id1">>, Removed |-> <<>>]
           /\ EntriesById' = ("id1" :> Content("id1", "/y"))
           /\ EntriesByPath' = ("/y" :> Content("id1", "/y")) ) ]_vars

\* C4: with the store {id1 at /x, id2 at /y}, the batch [content id2 at /x]
\* yields Updated = [id2], Removed = [id1], and the store {id2 at /x}: id1 is in
\* neither map and /y maps to no entry.
C4_RenameDisplaces ==
  [][ ( /\ EntriesById = ("id1" :> Content("id1", "/x") @@ "id2" :> Content("id2", "/y"))
        /\ EntriesByPath = ("/x" :> Content("id1", "/x") @@ "/y" :> Content("id2", "/y"))
        /\ Reconciles(<<Content("id2", "/x")>>) )
      => ( /\ changes' = [Added |-> <<>>, Updated |-> <<"id2">>, Removed |-> <<"id1">>]
           /\ EntriesById' = ("id2" :> Content("id2", "/x"))
           /\ EntriesByPath' = ("/x" :> Content("id2", "/x")) ) ]_vars

\* The ids pending deletion when row j of the batch is reached.
PendingBefore(rows, j) == Deleted(EntriesById, EntriesByPath, SubSeq(rows, 1, j - 1))

\* C5: when the last row of a batch is a content row whose id an earlier row of
\* the batch marked pending-deletion, the deletion is retracted: the id is not
\* reported Removed and is in EntriesById after the pass.
C5_IdentityWins ==
  [][ \A rows \in Batches :
        ( /\ Len(rows) > 1
          /\ rows[Len(rows)].Tag # "deleted"
          /\ rows[Len(rows)].Id \in PendingBefore(rows, Len(rows))
          /\ Reconciles(rows) )
        => ( /\ rows[Len(rows)].Id \notin Range(changes'.Removed)
             /\ rows[Len(rows)].Id \in DOMAIN EntriesById' ) ]_vars

\* C6: when the callback is invoked, every id in Added or Updated is in
\* EntriesById, with its entry at its path in EntriesByPath, and no id in
\* Removed is in EntriesById.
C6_CallbackSeesStore ==
  pc = "callback" =>
    /\ \A i \in Range(changes.Added) \cup Range(changes.Updated) :
         /\ i \in DOMAIN EntriesById
         /\ Lookup(EntriesByPath, EntriesById[i].PathLower, NilEntry) = EntriesById[i]
    /\ \A i \in Range(changes.Removed) : i \notin DOMAIN EntriesById

\* A goroutine is inside Cancel at the send, the buffer is full, and the worker
\* will not receive from cancelch again: it has seen a cancellation (checkCanceled
\* returns on the flag) or Run has returned.
CancelStuck ==
  /\ cancelers > 0
  /\ cancelch = 1
  /\ (canceled \/ pc = "returned")

\* C7: no Cancel call blocks forever, whenever and however often it is called.
C7_CancelNeverBlocks == ~CancelStuck

\* C8: a run sends at most one terminal value on Exit, and exactly one (the
\* cancellation error, or the transport error of the response in hand) by the
\* time Run returns; the worker stays at its send until the value is received;
\* once the value is sent no request is in flight or issued and the callback
\* is not running.
C8_OneTerminalValue ==
  /\ Len(Exit) + (IF exitch # Empty THEN 1 ELSE 0) <= 1
  /\ (exitch # Empty) <=> (pc = "exit_send")
  /\ (pc = "returned") <=> (Len(Exit) = 1)
  /\ ExitSent => /\ pc \in {"exit_send", "returned"}
                 /\ req = NoReq
                 /\ changes = NoChanges
  /\ \A i \in 1..Len(Exit) :
       \/ Exit[i] = ErrCanceled /\ canceled
       \/ Exit[i] \in Errs /\ rsp.err = Exit[i]

\* Run has returned after delivering the cancellation error.
C8_Witness == pc = "returned" /\ Exit = <<ErrCanceled>>

\* C9: a response with a transport error (listing or long-poll) puts that
\* error on exitch whether or not a cancellation is pending, leaves Cursor,
\* hasMore and both maps as they were and calls no callback; from then on the
\* worker only waits for a reader, who receives that error, and no request is
\* issued.
C9_ErrorTerminal ==
  [][ /\ (rsp' # rsp /\ rsp'.err # Empty) =>
           /\ pc' = "exit_send"
           /\ exitch' = rsp'.err
           /\ req' = NoReq
           /\ changes' = NoChanges
           /\ UNCHANGED <<Cursor, hasMore, EntriesById, EntriesByPath, canceled, cancelch>>
      /\ (pc = "exit_send" /\ exitch \in Errs) =>
           /\ req' = NoReq
           /\ changes' = NoChanges
           /\ UNCHANGED <<Cursor, hasMore, EntriesById, EntriesByPath, rsp>>
           /\ \/ pc' = "exit_send" /\ UNCHANGED <<exitch, Exit>>
              \/ pc' = "returned" /\ Exit' = <<exitch>>
      /\ (pc = "returned") =>
           /\ pc' = "returned"
           /\ req' = NoReq
           /\ UNCHANGED <<Cursor, hasMore, EntriesById, EntriesByPath, rsp, changes, Exit>>
    ]_vars

\* An incremental listing or a long-poll failed while a cancellation was
\* pending in cancelch, and the error is what the worker is sending.
C9_Witness ==
  /\ pc = "exit_send"
  /\ exitch \in Errs
  /\ rsp.err = exitch
  /\ cancelch = 1
  /\ Cursor # Empty

\* C10: while a listing response that returned without error and was not
\* discarded for a cancellation is the response in hand, Cursor and hasMore
\* are its cursor and has_more, whatever its number of rows; and every
\* incremental listing or long-poll request in flight carries the cursor of the
\* last listing response stored (an initial listing is in flight only when none
\* was stored).
C10_CursorContinuity ==
  /\ (rsp.kind = "list" /\ rsp.err = Empty /\ ~canceled) =>
        /\ Cursor = rsp.Cursor
        /\ hasMore = rsp.HasMore
  /\ req.kind \in {"continue", "longpoll"} =>
        /\ req.Cursor = lastCursor
        /\ lastCursor # Empty
  /\ req.kind = "initial" => lastCursor = Empty

\* A page without rows was stored: the response in hand has no entries, and the
\* Cursor and hasMore are its c2 and true, in a watcher that holds entries.
C10_Witness ==
  /\ pc = "fetch"
  /\ rsp.kind = "list" /\ rsp.err = Empty /\ rsp.Entries = 0
  /\ rsp.Cursor = "c2" /\ rsp.HasMore
  /\ Cursor = "c2" /\ hasMore
  /\ ~canceled
  /\ EntriesById # EmptyMap

\* A step in which the worker takes a listing response that came without error
\* and is not discarded for a cancellation.
ListingStored ==
  /\ pc = "listwait"
  /\ rsp'.kind = "list"
  /\ rsp'.err = Empty
  /\ pc' # "exit_send"

\* Rows that change nothing: tombstones at paths no entry occupies (none at all
\* is the case of zero rows).
NoOpBatch(rows) ==
  \A k \in 1..Len(rows) :
     /\ rows[k].Tag = "deleted"
     /\ rows[k].PathLower \notin DOMAIN EntriesByPath

\* C11: a listing response with zero rows (initial or incremental), or a batch
\* of tombstones at unoccupied paths, calls no callback and leaves both maps as
\* they were; and whenever a stored response calls no callback the maps are
\* unchanged.
C11_NoOpSuppressed ==
  [][ ListingStored =>
        /\ rsp'.Entries = 0 =>
             /\ pc' # "callback"
             /\ changes' = NoChanges
             /\ UNCHANGED <<EntriesById, EntriesByPath>>
        /\ \A rows \in Batches :
             (NoOpBatch(rows) /\ Len(rows) = rsp'.Entries /\ Reconciles(rows)) =>
               /\ pc' # "callback"
               /\ changes' = NoChanges
               /\ UNCHANGED <<EntriesById, EntriesByPath>>
        /\ pc' # "callback" => UNCHANGED <<EntriesById, EntriesByPath>>
    ]_vars

\* A stored response with rows has called no callback in a watcher that holds
\* entries: its rows were tombstones at unoccupied paths.
C11_Witness ==
  /\ pc = "longpoll"
  /\ rsp.kind = "list" /\ rsp.err = Empty /\ rsp.Entries > 0
  /\ ~canceled
  /\ EntriesById # EmptyMap

\* A step in which fetchInitial stores exactly these rows.
InitialStores(rows) ==
  /\ ~checkCanceled.hit
  /\ \E c \in Cursors, h \in BOOLEAN : FetchInitialResponse(OkList(rows, c, h))

\* Content rows with pairwise distinct ids that the store does not hold, at
\* pairwise distinct paths that no entry occupies.
PureAddition(rows) ==
  /\ \A k \in 1..Len(rows) :
       /\ rows[k].Tag # "deleted"
       /\ rows[k].Id \notin DOMAIN EntriesById
       /\ rows[k].PathLower \notin DOMAIN EntriesByPath
  /\ \A j, k \in 1..Len(rows) :
       j # k => rows[j].Id # rows[k].Id /\ rows[j].PathLower # rows[k].PathLower

\* C12: a batch of content rows with new, distinct ids at distinct unoccupied
\* paths, in the initial or an incremental listing, yields Added = the ids of
\* the rows (in their order), Updated and Removed empty, the callback is called
\* when there are rows, and each row is then the entry under its id and at its
\* path.
C12_PureAddition ==
  [][ ListingStored =>
        \A rows \in Batches :
          ( /\ Len(rows) = rsp'.Entries
            /\ PureAddition(rows)
            /\ (Reconciles(rows) \/ InitialStores(rows)) )
          => /\ changes' = [Added |-> [k \in 1..Len(rows) |-> rows[k].Id],
                            Updated |-> <<>>, Removed |-> <<>>]
             /\ Len(rows) > 0 => pc' = "callback"
             /\ \A k \in 1..Len(rows) :
                  /\ Lookup(EntriesById', rows[k].Id, NilEntry) = rows[k]
                  /\ Lookup(EntriesByPath', rows[k].PathLower, NilEntry) = rows[k]
    ]_vars

\* An incremental listing added id2 at /y to a store that held id1 at /x.
C12_Witness ==
  /\ pc = "callback"
  /\ changes = [Added |-> <<"id2">>, Updated |-> <<>>, Removed |-> <<>>]
  /\ EntriesById = ("id1" :> Content("id1", "/x") @@ "id2" :> Content("id2", "/y"))
  /\ EntriesByPath = ("/x" :> Content("id1", "/x") @@ "/y" :> Content("id2", "/y"))

\* A step in which the worker sends a transport request.
SendsRequest == req = NoReq /\ req' # NoReq

\* C13: the request that follows a long-poll response with backoff N (a listing
\* when it reported changes, the next long-poll when it did not) is sent only
\* after N seconds have passed since that response.
C13_BackoffHonored ==
  [][ (SendsRequest /\ rsp.kind = "longpoll" /\ rsp.err = Empty)
        => waited >= rsp.Backoff ]_vars

\* The worker has slept the backoff of a long-poll response without changes and
\* is about to send the next long-poll.
C13_Witness ==
  /\ pc = "longpoll"
  /\ rsp.kind = "longpoll" /\ rsp.err = Empty /\ ~rsp.Changes
  /\ rsp.Backoff > 0
  /\ waited = rsp.Backoff

\* C14: a cancellation signalled while the worker is in the backoff sleep is
\* observed when the sleep ends: the worker then sends ErrCanceled on exitch
\* instead of going on to another listing or long-poll request.
C14_CancelSeenAfterSleep ==
  [][ (pc = "sleep" /\ pc' # "sleep" /\ cancelch = 1)
        => (pc' = "exit_send" /\ exitch' = ErrCanceled) ]_vars

\* C15: when a cancellation is pending in cancelch as a listing or long-poll
\* response returns without error, the worker takes the cancellation, sends
\* ErrCanceled on exitch, calls no callback, does not sleep, and leaves Cursor,
\* hasMore and both maps as they were; they stay so until a reader has received
\* ErrCanceled.
C15_ResponseDiscarded ==
  [][ /\ (rsp' # rsp /\ rsp'.kind # "none" /\ rsp'.err = Empty /\ cancelch = 1) =>
           /\ pc' = "exit_send"
           /\ exitch' = ErrCanceled
           /\ canceled' /\ cancelch' = 0
           /\ changes' = NoChanges
           /\ UNCHANGED <<Cursor, hasMore, EntriesById, EntriesByPath, sleepLeft>>
      /\ (pc = "exit_send" /\ exitch = ErrCanceled) =>
           /\ changes' = NoChanges
           /\ UNCHANGED <<Cursor, hasMore, EntriesById, EntriesByPath, rsp>>
           /\ \/ pc' = "exit_send" /\ UNCHANGED <<exitch, Exit>>
              \/ pc' = "returned" /\ Exit' = <<ErrCanceled>>
    ]_vars

\* A listing response with rows and another cursor than the stored one was
\* discarded: the worker is sending ErrCanceled.
C15_Witness ==
  /\ pc = "exit_send"
  /\ exitch = ErrCanceled
  /\ rsp.kind = "list" /\ rsp.err = Empty /\ rsp.Entries > 0
  /\ Cursor # Empty
  /\ rsp.Cursor # Cursor

ListingKinds == {"initial", "continue"}

\* C16: a long-poll request is sent only with hasMore false; after a stored
\* listing response the next request is a listing while hasMore is true and a
\* long-poll once it is false; after a long-poll response without changes the
\* next request is a long-poll, and after one with changes hasMore is true and
\* the next request is a listing.
C16_PhaseOrdering ==
  [][ SendsRequest =>
        /\ req'.kind = "longpoll" => (~hasMore /\ ~hasMore')
        /\ rsp.kind = "list" =>
             IF hasMore THEN req'.kind \in ListingKinds ELSE req'.kind = "longpoll"
        /\ rsp.kind = "longpoll" =>
             IF rsp.Changes THEN hasMore /\ req'.kind \in ListingKinds
                            ELSE req'.kind = "longpoll"
    ]_vars

\* A long-poll response reported changes: hasMore is set and the worker is
\* about to fetch.
C16_Witness ==
  /\ pc = "fetch"
  /\ rsp.kind = "longpoll" /\ rsp.err = Empty /\ rsp.Changes
  /\ hasMore
  /\ ~canceled

\* C17: fetch sends the initial listing, for the watcher's path and recursive
\* exactly in recursive mode, when Cursor is empty, and the continuation from
\* Cursor when it is not; Cursor leaves the empty string only with a response
\* to an initial listing, so no continuation is sent before one was stored.
C17_RequestSelection ==
  [][ /\ (SendsRequest /\ pc = "fetch") =>
           IF Cursor = Empty
             THEN req' = [kind |-> "initial", Cursor |-> Empty, Path |-> WatchPath,
                          Recursive |-> (DirMode = DirModeRecursive), Timeout |-> 0]
             ELSE req' = [kind |-> "continue", Cursor |-> Cursor, Path |-> Empty,
                          Recursive |-> FALSE, Timeout |-> 0]
      /\ (Cursor = Empty /\ Cursor' # Empty) =>
           /\ req.kind = "initial"
           /\ rsp'.kind = "list" /\ rsp'.err = Empty
      /\ req'.kind = "continue" => lastCursor' # Empty
    ]_vars

\* A continuation from c2 is in flight in a recursive watcher.
C17_Witness ==
  /\ pc = "listwait"
  /\ req.kind = "continue"
  /\ req.Cursor = "c2"
  /\ Cursor = "c2"
  /\ DirMode = DirModeRecursive

\* rows[k] is a tombstone for the occupied path p, whose occupant is i, and no
\* other row of the batch names p or i.
PlainDeletion(rows, k, p, i) ==
  /\ rows[k] = Tombstone(p)
  /\ p \in DOMAIN EntriesByPath
  /\ EntriesByPath[p].Id = i
  /\ \A j \in 1..Len(rows) :
       j # k => rows[j].PathLower # p /\ rows[j].Id # i

\* The ids and paths a batch names, and those its rows can displace.
NamedIds(rows) ==
  {rows[j].Id : j \in 1..Len(rows)}
    \cup {EntriesByPath[q].Id : q \in {rows[j].PathLower : j \in 1..Len(rows)}
                                        \cap DOMAIN EntriesByPath}
NamedPaths(rows) ==
  {rows[j].PathLower : j \in 1..Len(rows)}
    \cup {EntriesById[n].PathLower : n \in NamedIds(rows) \cap DOMAIN EntriesById}

\* C18: from a store whose maps are consistent, an incremental batch with a
\* tombstone for an occupied path p whose occupant is i, and no other row naming
\* p or i, is reported with i in Removed and in no other bucket; afterwards i is
\* not in EntriesById and p is not in EntriesByPath, and the entries the batch
\* does not name are unchanged.
C18_PlainDeletion ==
  [][ ListingStored =>
        \A rows \in Batches : \A k \in 1..Len(rows) : \A p \in Paths : \A i \in Ids :
          ( /\ Len(rows) = rsp'.Entries
            /\ C1_MapsConsistent
            /\ PlainDeletion(rows, k, p, i)
            /\ Reconciles(rows) )
          => /\ pc' = "callback"
             /\ i \in Range(changes'.Removed)
             /\ i \notin Range(changes'.Added) \cup Range(changes'.Updated)
             /\ i \notin DOMAIN EntriesById'
             /\ p \notin DOMAIN EntriesByPath'
             /\ \A n \in Ids \ NamedIds(rows) :
                  Lookup(EntriesById', n, NilEntry) = Lookup(EntriesById, n, NilEntry)
             /\ \A q \in Paths \ NamedPaths(rows) :
                  Lookup(EntriesByPath', q, NilEntry) = Lookup(EntriesByPath, q, NilEntry)
    ]_vars

\* The tombstone of /x removed id1 from a store that also held id2 at /y.
C18_Witness ==
  /\ pc = "callback"
  /\ changes = [Added |-> <<>>, Updated |-> <<>>, Removed |-> <<"id1">>]
  /\ EntriesById = [n \in {"id2"} |-> Content("id2", "/y")]
  /\ EntriesByPath = [q \in {"/y"} |-> Content("id2", "/y")]
  /\ rsp.kind = "list" /\ rsp.Entries = 1

\* C19: once a Cancel call completed its send while Run was executing, the
\* worker starts at most one further request and begins at most one more
\* callback.
C19_BoundedAfterCancel ==
  after.signalled => (after.reqs <= 1 /\ after.cbs <= 1)

\* The signal landed at a callback, the worker sent one more request and Run
\* returned with ErrCanceled.
C19_Witness ==
  /\ after = [signalled |-> TRUE, reqs |-> 1, cbs |-> 1]
  /\ pc = "returned"
  /\ Exit = <<ErrCanceled>>

\* C20: under the fair scheduler, once Cancel was called and Run is executing,
\* Run eventually returns, and the value it delivered on Exit is ErrCanceled or
\* a transport error.
C20_TerminatesOnCancel ==
  /\ (cancelCalls > 0 /\ pc # "idle") ~> (pc = "returned")
  /\ [](pc = "returned" => (Len(Exit) = 1 /\ Exit[1] \in Errs \cup {ErrCanceled}))

\* Run returned with ErrCanceled after a Cancel call made during a long-poll
\* that had been answered by the time it returned.
C20_Witness ==
  /\ pc = "returned"
  /\ Exit = <<ErrCanceled>>
  /\ cancelCalls > 0
  /\ after.signalled
  /\ rsp.kind = "longpoll"

====
